---- MODULE Spec2Model ----
(***************************************************************************)
(* commiTUI: the commit-message wizard of src/tui.rs (run_tui) and the     *)
(* subject validation of src/validation.rs.                                *)
(*                                                                         *)
(* A Rust String is a sequence of characters, each character a one-        *)
(* character TLA+ string; Option<T> is a sequence of length at most one    *)
(* (None == <<>>, Some(x) == <<x>>).                                       *)
(***************************************************************************)
EXTENDS Integers, Sequences, FiniteSets, TLC

VARIABLES
    config,         \* the Config run_tui is called with (read-only)
    pc,             \* "loop" while the event loop runs, "returned" after run_tui returns
    exit_key,       \* the key event that broke the loop: "none", "quit" or "confirm"
    result,         \* Option<String>: the Ok(..) value run_tui returned
    raw_mode,       \* terminal raw mode enabled
    alt_screen,     \* alternate screen entered
    validation_msg, \* Option<String>: the validation message of the latest draw
    step,
    selected_type,
    chosen_type,
    selected_scope,
    custom_scope,
    focus_input,
    chosen_scope,
    subject,
    body,
    body_lines,
    in_body,
    breaking,
    issues,
    focus_issues,
    global_file,    \* the global config file as Config::load finds it
    local_file      \* ./commitui.toml as Config::load finds it

app == <<step, selected_type, chosen_type, selected_scope, custom_scope, focus_input,
         chosen_scope, subject, body, body_lines, in_body, breaking, issues, focus_issues>>
files == <<global_file, local_file>>
vars == <<config, pc, exit_key, result, raw_mode, alt_screen, validation_msg, app, files>>

(***************************************************************************)
(* Option and String helpers (Rust std).                                   *)
(***************************************************************************)
None == <<>>
Some(x) == <<x>>
is_none(o) == o = <<>>
is_some(o) == o # <<>>
unwrap(o) == o[1]
unwrap_or(o, d) == IF o = <<>> THEN d ELSE o[1]

NL == "\n"
EmptyStr == <<>>
is_empty(s) == Len(s) = 0

ends_with(s, suf) ==
    /\ Len(s) >= Len(suf)
    /\ SubSeq(s, Len(s) - Len(suf) + 1, Len(s)) = suf

starts_with(s, pre) ==
    /\ Len(s) >= Len(pre)
    /\ SubSeq(s, 1, Len(pre)) = pre

push(s, c) == Append(s, c)
pop(s) == IF Len(s) = 0 THEN s ELSE SubSeq(s, 1, Len(s) - 1)

\* char::is_whitespace, on the characters the model uses
WhiteChars == {" ", "\t", "\n"}
is_whitespace(c) == c \in WhiteChars

RECURSIVE trim_start(_)
trim_start(s) ==
    IF Len(s) > 0 /\ is_whitespace(s[1]) THEN trim_start(Tail(s)) ELSE s

RECURSIVE trim_end(_)
trim_end(s) ==
    IF Len(s) > 0 /\ is_whitespace(s[Len(s)]) THEN trim_end(SubSeq(s, 1, Len(s) - 1)) ELSE s

trim(s) == trim_end(trim_start(s))

\* char::is_uppercase, on ASCII
UpperChars == {"A", "B", "C", "D", "E", "F", "G", "H", "I", "J", "K", "L", "M",
               "N", "O", "P", "Q", "R", "S", "T", "U", "V", "W", "X", "Y", "Z"}
is_uppercase(c) == c \in UpperChars

\* [String]::join(sep)
RECURSIVE join(_, _)
join(lines, sep) ==
    IF Len(lines) = 0 THEN EmptyStr
    ELSE IF Len(lines) = 1 THEN lines[1]
    ELSE lines[1] \o sep \o join(Tail(lines), sep)

\* Vec::contains and Iterator::position (1-based; 0 when there is no such element)
contains(v, x) == \E i \in 1..Len(v) : v[i] = x
position(v, x) ==
    IF contains(v, x) THEN CHOOSE i \in 1..Len(v) : v[i] = x /\ \A j \in 1..(i - 1) : v[j] # x
    ELSE 0

(***************************************************************************)
(* src/config.rs: the built-in defaults.                                   *)
(***************************************************************************)
default_subject_max_length == 72
default_subject_start_lowercase == TRUE
default_subject_no_ending_period == TRUE

(***************************************************************************)
(* src/validation.rs: validate_subject.  The result is Option<String>; the *)
(* message is kept as the pieces format! concatenates.                     *)
(***************************************************************************)
MsgEmpty == <<"Subject must not be empty.">>
MsgTooLong(max, len) ==
    <<"Subject should be ", ToString(max), " characters or less (currently ",
      ToString(len), ").">>
MsgPeriod == <<"Subject should not end with a period.">>
MsgLowercase == <<"Subject should start with a lowercase letter.">>

validate_subject_swapped(subj, cfg) ==
    LET max_length == unwrap_or(cfg.subject_max_length, default_subject_max_length)
        start_lowercase == unwrap_or(cfg.subject_start_lowercase, default_subject_start_lowercase)
        no_ending_period == unwrap_or(cfg.subject_no_ending_period, default_subject_no_ending_period)
    IN  IF is_empty(trim(subj)) THEN Some(MsgEmpty)
        ELSE IF start_lowercase /\ Len(subj) > 0 /\ is_uppercase(subj[1]) THEN Some(MsgLowercase)
        ELSE IF no_ending_period /\ ends_with(subj, <<".">>) THEN Some(MsgPeriod)
        ELSE IF Len(subj) > max_length THEN Some(MsgTooLong(max_length, Len(subj)))
        ELSE None

validate_subject_no_length(subj, cfg) ==
    LET start_lowercase == unwrap_or(cfg.subject_start_lowercase, default_subject_start_lowercase)
        no_ending_period == unwrap_or(cfg.subject_no_ending_period, default_subject_no_ending_period)
    IN  IF is_empty(trim(subj)) THEN Some(MsgEmpty)
        ELSE IF no_ending_period /\ ends_with(subj, <<".">>) THEN Some(MsgPeriod)
        ELSE IF start_lowercase /\ Len(subj) > 0 /\ is_uppercase(subj[1]) THEN Some(MsgLowercase)
        ELSE None

validate_subject_untrimmed(subj, cfg) ==
    LET max_length == unwrap_or(cfg.subject_max_length, default_subject_max_length)
        start_lowercase == unwrap_or(cfg.subject_start_lowercase, default_subject_start_lowercase)
        no_ending_period == unwrap_or(cfg.subject_no_ending_period, default_subject_no_ending_period)
    IN  IF is_empty(subj) THEN Some(MsgEmpty)
        ELSE IF Len(subj) > max_length THEN Some(MsgTooLong(max_length, Len(subj)))
        ELSE IF no_ending_period /\ ends_with(subj, <<".">>) THEN Some(MsgPeriod)
        ELSE IF start_lowercase /\ Len(subj) > 0 /\ is_uppercase(subj[1]) THEN Some(MsgLowercase)
        ELSE None

validate_subject(subj, cfg) ==
    LET max_length == unwrap_or(cfg.subject_max_length, default_subject_max_length)
        start_lowercase == unwrap_or(cfg.subject_start_lowercase, default_subject_start_lowercase)
        no_ending_period == unwrap_or(cfg.subject_no_ending_period, default_subject_no_ending_period)
    IN  IF is_empty(trim(subj)) THEN Some(MsgEmpty)
        ELSE IF Len(subj) > max_length THEN Some(MsgTooLong(max_length, Len(subj)))
        ELSE IF no_ending_period /\ ends_with(subj, <<".">>) THEN Some(MsgPeriod)
        ELSE IF start_lowercase /\ Len(subj) > 0 /\ is_uppercase(subj[1]) THEN Some(MsgLowercase)
        ELSE None

(***************************************************************************)
(* src/tui.rs: scope list helpers.  Indices are 0-based as in the source;  *)
(* the element at source index i is v[i + 1].                              *)
(***************************************************************************)
SepChar == "U+2500"

is_scope_selectable(scopes_slice, idx) ==
    ~starts_with(scopes_slice[idx + 1], <<SepChar>>)

RECURSIVE next_selectable_scope(_, _, _)
next_selectable_scope(scopes_slice, idx, dir) ==
    IF dir > 0
    THEN IF idx + 1 >= Len(scopes_slice) THEN idx
         ELSE IF is_scope_selectable(scopes_slice, idx + 1) THEN idx + 1
         ELSE next_selectable_scope(scopes_slice, idx + 1, dir)
    ELSE IF idx = 0 THEN idx
         ELSE IF is_scope_selectable(scopes_slice, idx - 1) THEN idx - 1
         ELSE next_selectable_scope(scopes_slice, idx - 1, dir)

types_slice(cfg) == unwrap_or(cfg.types, <<>>)
scopes_slice(cfg) == unwrap_or(cfg.scopes, <<>>)

(***************************************************************************)
(* src/tui.rs 610-674: the message run_tui returns, built from the final   *)
(* AppState s (a record of the state variables).                           *)
(***************************************************************************)
BreakingPrefix == <<"B","R","E","A","K","I","N","G"," ","C","H","A","N","G","E",":"," ">>

result_header_no_scope(s) ==
    IF is_some(s.chosen_type)
    THEN unwrap(s.chosen_type) \o <<":", " ">> \o s.subject
    ELSE EmptyStr

result_header_from_input(s) ==
    IF is_some(s.chosen_type)
    THEN IF is_empty(s.custom_scope)
         THEN unwrap(s.chosen_type) \o <<":", " ">> \o s.subject
         ELSE unwrap(s.chosen_type) \o <<"(">> \o s.custom_scope \o <<")", ":", " ">>
              \o s.subject
    ELSE EmptyStr

\* 611-618
result_header(s) ==
    IF is_some(s.chosen_type)
    THEN IF is_none(s.chosen_scope) \/ is_empty(unwrap_or(s.chosen_scope, EmptyStr))
         THEN unwrap(s.chosen_type) \o <<":", " ">> \o s.subject
         ELSE unwrap(s.chosen_type) \o <<"(">> \o unwrap(s.chosen_scope) \o <<")", ":", " ">>
              \o s.subject
    ELSE EmptyStr

\* 630-641: the committed lines, then the current line
body_text(s) ==
    LET r1 == join(s.body_lines, <<NL>>)
    IN  IF ~is_empty(s.body)
        THEN (IF ~is_empty(s.body_lines) THEN push(r1, NL) ELSE r1) \o s.body
        ELSE r1

\* 620-642
append_body(r, s) ==
    IF ~is_empty(s.body_lines) \/ ~is_empty(s.body)
    THEN LET r1 == IF ~is_empty(r) /\ ~ends_with(r, <<NL>>) THEN push(r, NL) ELSE r
             r2 == IF ~ends_with(r1, <<NL, NL>>) THEN r1 \o <<NL, NL>> ELSE r1
         IN  r2 \o body_text(s)
    ELSE r

append_breaking_one_newline(r, s) ==
    IF ~is_empty(trim(s.breaking))
    THEN (IF ~ends_with(r, <<NL>>) THEN r \o <<NL>> ELSE r) \o BreakingPrefix \o trim(s.breaking)
    ELSE r

append_breaking_untrimmed_check(r, s) ==
    IF ~is_empty(s.breaking)
    THEN (IF ~ends_with(r, <<NL, NL>>) THEN r \o <<NL, NL>> ELSE r)
         \o BreakingPrefix \o trim(s.breaking)
    ELSE r

\* 644-656
append_breaking(r, s) ==
    LET has_previous_content == ~is_empty(trim(r))
    IN  IF ~is_empty(trim(s.breaking))
        THEN LET r1 == IF has_previous_content
                       THEN (IF ~ends_with(r, <<NL, NL>>) THEN r \o <<NL, NL>> ELSE r)
                       ELSE (IF ~ends_with(r, <<NL, NL>>) THEN r \o <<NL, NL>> ELSE r)
             IN  r1 \o BreakingPrefix \o trim(s.breaking)
        ELSE r

append_issues_untrimmed(r, s) ==
    IF ~is_empty(trim(s.issues))
    THEN (IF ~is_empty(r) /\ ~ends_with(r, <<NL, NL>>) THEN r \o <<NL, NL>> ELSE r) \o s.issues
    ELSE r

\* 658-667
append_issues(r, s) ==
    IF ~is_empty(trim(s.issues))
    THEN (IF ~is_empty(r) /\ ~ends_with(r, <<NL, NL>>) THEN r \o <<NL, NL>> ELSE r)
         \o trim(s.issues)
    ELSE r

final_newline_missing(r) == r

\* 669-672
final_newline(r) == IF ~ends_with(r, <<NL>>) THEN push(r, NL) ELSE r

\* 610-674
commit_message(s) ==
    final_newline(append_issues(append_breaking(append_body(result_header(s), s), s), s))

(***************************************************************************)
(* src/tui.rs 252-293: the text drawn in the Preview pane.                 *)
(***************************************************************************)
preview_footer_sep(p) ==
    IF ends_with(p, <<NL>>) /\ ~ends_with(p, <<NL, NL>>) THEN push(p, NL)
    ELSE IF ~is_empty(p) THEN p \o <<NL, NL>>
    ELSE p

full_preview(s) ==
    LET type_str == unwrap_or(s.chosen_type, EmptyStr)
        scope_str == unwrap_or(s.chosen_scope, EmptyStr)
        preview == IF is_none(s.chosen_scope) \/ is_empty(scope_str)
                   THEN type_str \o <<":", " ">> \o s.subject
                   ELSE type_str \o <<"(">> \o scope_str \o <<")", ":", " ">> \o s.subject
        p1 == IF ~is_empty(s.body_lines) \/ ~is_empty(s.body)
              THEN LET q == preview \o <<NL, NL>> \o join(s.body_lines, <<NL>>)
                   IN  IF ~is_empty(s.body)
                       THEN (IF ~is_empty(s.body_lines) THEN push(q, NL) ELSE q) \o s.body
                       ELSE q
              ELSE preview
        p2 == IF ~is_empty(trim(s.breaking))
              THEN preview_footer_sep(p1) \o BreakingPrefix \o trim(s.breaking)
              ELSE p1
        p3 == IF ~is_empty(trim(s.issues))
              THEN preview_footer_sep(p2) \o trim(s.issues)
              ELSE p2
    IN  p3

(***************************************************************************)
(* The inputs of a run: the configuration and the keys the user presses.   *)
(***************************************************************************)
MaxLen == 2         \* longest text a single field holds
MaxChars == 2       \* most text held by all fields together
MaxLines == 2       \* most committed body lines

Str_feat == <<"f", "e", "a", "t">>
Str_fix == <<"f", "i", "x">>
Str_no_scope == <<"n", "o", " ", "s", "c", "o", "p", "e">>
Str_api == <<"a", "p", "i">>
Str_ui == <<"u", "i">>
Str_separator == <<SepChar, SepChar>>

\* a cut-down Config::default(): the sentinel first, one separator inside the list
SmallConfig ==
    [types |-> Some(<<Str_feat, Str_fix>>),
     scopes |-> Some(<<Str_no_scope, Str_api, Str_separator, Str_ui>>),
     subject_max_length |-> Some(MaxLen - 1),
     subject_start_lowercase |-> Some(default_subject_start_lowercase),
     subject_no_ending_period |-> Some(default_subject_no_ending_period)]

Configs == {SmallConfig}

\* KeyCode::Char(c): a letter (the one that is also the Back key), a blank, a period,
\* a capital
KeyChars == {"b", " ", ".", "A"}

(***************************************************************************)
(* AppState as a record, and the assignment of a new AppState.             *)
(***************************************************************************)
state ==
    [step |-> step, selected_type |-> selected_type, chosen_type |-> chosen_type,
     selected_scope |-> selected_scope, custom_scope |-> custom_scope,
     focus_input |-> focus_input, chosen_scope |-> chosen_scope, subject |-> subject,
     body |-> body, body_lines |-> body_lines, in_body |-> in_body,
     breaking |-> breaking, issues |-> issues, focus_issues |-> focus_issues]

InitialAppState ==
    [step |-> "Type", selected_type |-> 0, chosen_type |-> None,
     selected_scope |-> 0, custom_scope |-> EmptyStr, focus_input |-> FALSE,
     chosen_scope |-> None, subject |-> EmptyStr, body |-> EmptyStr, body_lines |-> <<>>,
     in_body |-> FALSE, breaking |-> EmptyStr, issues |-> EmptyStr, focus_issues |-> FALSE]

SetApp(s) ==
    /\ step' = s.step
    /\ selected_type' = s.selected_type
    /\ chosen_type' = s.chosen_type
    /\ selected_scope' = s.selected_scope
    /\ custom_scope' = s.custom_scope
    /\ focus_input' = s.focus_input
    /\ chosen_scope' = s.chosen_scope
    /\ subject' = s.subject
    /\ body' = s.body
    /\ body_lines' = s.body_lines
    /\ in_body' = s.in_body
    /\ breaking' = s.breaking
    /\ issues' = s.issues
    /\ focus_issues' = s.focus_issues

AppIs(s) ==
    /\ step = s.step
    /\ selected_type = s.selected_type
    /\ chosen_type = s.chosen_type
    /\ selected_scope = s.selected_scope
    /\ custom_scope = s.custom_scope
    /\ focus_input = s.focus_input
    /\ chosen_scope = s.chosen_scope
    /\ subject = s.subject
    /\ body = s.body
    /\ body_lines = s.body_lines
    /\ in_body = s.in_body
    /\ breaking = s.breaking
    /\ issues = s.issues
    /\ focus_issues = s.focus_issues

\* 594-602: the end of every loop iteration that did not break
end_of_iteration_always_clears(s) ==
    LET s1 == IF s.step = "Body"
              THEN [s EXCEPT !.body = EmptyStr, !.in_body = TRUE, !.focus_input = TRUE]
              ELSE s
    IN  IF s1.step # "Body" THEN [s1 EXCEPT !.in_body = FALSE] ELSE s1

end_of_iteration_clears_lines(s) ==
    LET s1 == IF s.step = "Body" /\ ~s.in_body
              THEN [s EXCEPT !.body_lines = <<>>, !.in_body = TRUE, !.focus_input = TRUE]
              ELSE s
    IN  IF s1.step # "Body" THEN [s1 EXCEPT !.in_body = FALSE] ELSE s1

end_of_iteration(s) ==
    LET s1 == IF s.step = "Body" /\ ~s.in_body
              THEN [s EXCEPT !.body = EmptyStr, !.in_body = TRUE, !.focus_input = TRUE]
              ELSE s
    IN  IF s1.step # "Body" THEN [s1 EXCEPT !.in_body = FALSE] ELSE s1

\* 182: the message the Subject step draws under the input
drawn_validation_msg(s, cfg) ==
    IF s.step = "Subject" THEN validate_subject(s.subject, cfg) ELSE None

\* one iteration whose key handler leaves AppState s and does not break, up to and
\* including the draw that opens the next iteration
Continue(s) ==
    /\ SetApp(end_of_iteration(s))
    /\ validation_msg' = drawn_validation_msg(end_of_iteration(s), config)
    /\ UNCHANGED <<files, config, pc, exit_key, result, raw_mode, alt_screen>>

\* break, then 605-674: restore the terminal, build the message, return Ok(result)
BreakLoop(key) ==
    /\ pc' = "returned"
    /\ exit_key' = key
    /\ raw_mode' = FALSE
    /\ alt_screen' = FALSE
    /\ result' = Some(commit_message(state))
    /\ UNCHANGED <<files, config, validation_msg, app>>

\* an index out of bounds: the thread panics inside the loop
Panic ==
    /\ pc' = "panicked"
    /\ UNCHANGED <<files, config, exit_key, result, raw_mode, alt_screen, validation_msg, app>>

TotalText ==
    LET RECURSIVE sum(_)
        sum(ls) == IF Len(ls) = 0 THEN 0 ELSE Len(ls[1]) + sum(Tail(ls))
    IN  Len(custom_scope) + Len(subject) + Len(body) + sum(body_lines)
        + Len(breaking) + Len(issues)

CanType(field) == Len(field) < MaxLen /\ TotalText < MaxChars

(***************************************************************************)
(* The two config files Config::load looks at.  A file is missing,         *)
(* unreadable or readable; the text of a readable file is either not TOML  *)
(* (None) or a table giving some of the five keys (Some(table), each key   *)
(* an Option).  The wizard specifications start after the load and hold    *)
(* the files at missing.                                                   *)
(***************************************************************************)
AbsentFile == [status |-> "missing", toml |-> None]
UnreadableFile == [status |-> "unreadable", toml |-> None]
TextFile(toml) == [status |-> "readable", toml |-> toml]

FilesNotRead == global_file = AbsentFile /\ local_file = AbsentFile

Init ==
    /\ config \in Configs
    /\ pc = "loop"
    /\ FilesNotRead
    /\ exit_key = "none"
    /\ result = None
    /\ raw_mode = TRUE
    /\ alt_screen = TRUE
    /\ AppIs(InitialAppState)
    /\ validation_msg = drawn_validation_msg(InitialAppState, config)

(***************************************************************************)
(* 323-593: the key handlers, one action per match arm.                    *)
(***************************************************************************)
\* 328-332: Esc or Ctrl+C, at any step
Quit ==
    /\ pc = "loop"
    /\ BreakLoop("quit")

\* 337-339
TypeQuit ==
    /\ pc = "loop" /\ step = "Type"
    /\ BreakLoop("quit")

TypeDown_wraps ==
    /\ pc = "loop" /\ step = "Type"
    /\ LET types_len == Len(types_slice(config))
           next == IF selected_type + 1 < types_len THEN selected_type + 1 ELSE 0
       IN  Continue([state EXCEPT !.selected_type = next])

\* 342-346
TypeDown ==
    /\ pc = "loop" /\ step = "Type"
    /\ LET types_len == Len(types_slice(config))
           last == IF types_len = 0 THEN 0 ELSE types_len - 1
           next == IF selected_type + 1 < last THEN selected_type + 1 ELSE last
       IN  Continue([state EXCEPT !.selected_type = next])

\* 347-349
TypeUp ==
    /\ pc = "loop" /\ step = "Type"
    /\ Continue([state EXCEPT !.selected_type =
                    IF selected_type = 0 THEN 0 ELSE selected_type - 1])

TypeEnter_first ==
    /\ pc = "loop" /\ step = "Type"
    /\ IF is_some(config.types) /\ selected_type >= Len(unwrap(config.types))
       THEN Panic
       ELSE Continue([state EXCEPT
                !.chosen_type = IF is_some(config.types)
                                THEN Some(unwrap(config.types)[1])
                                ELSE chosen_type,
                !.step = "Scope",
                !.focus_input = FALSE])

\* 350-357
TypeEnter ==
    /\ pc = "loop" /\ step = "Type"
    /\ IF is_some(config.types) /\ selected_type >= Len(unwrap(config.types))
       THEN Panic
       ELSE Continue([state EXCEPT
                !.chosen_type = IF is_some(config.types)
                                THEN Some(unwrap(config.types)[selected_type + 1])
                                ELSE chosen_type,
                !.step = "Scope",
                !.focus_input = FALSE])

\* 366-368
ScopeInputTab ==
    /\ pc = "loop" /\ step = "Scope" /\ focus_input
    /\ Continue([state EXCEPT !.focus_input = FALSE])

ScopeInputEnter_untrimmed ==
    /\ pc = "loop" /\ step = "Scope" /\ focus_input
    /\ Continue([state EXCEPT
            !.chosen_scope = IF ~is_empty(trim(custom_scope))
                             THEN Some(custom_scope)
                             ELSE None,
            !.step = "Subject",
            !.focus_input = TRUE])

\* 369-377
ScopeInputEnter ==
    /\ pc = "loop" /\ step = "Scope" /\ focus_input
    /\ Continue([state EXCEPT
            !.chosen_scope = IF ~is_empty(trim(custom_scope))
                             THEN Some(trim(custom_scope))
                             ELSE None,
            !.step = "Subject",
            !.focus_input = TRUE])

\* 378-380
ScopeInputKey(c) ==
    /\ pc = "loop" /\ step = "Scope" /\ focus_input
    /\ CanType(custom_scope)
    /\ Continue([state EXCEPT !.custom_scope = push(custom_scope, c)])

ScopeInputChar == \E c \in KeyChars : ScopeInputKey(c)

\* 381-383
ScopeInputBackspace ==
    /\ pc = "loop" /\ step = "Scope" /\ focus_input
    /\ Continue([state EXCEPT !.custom_scope = pop(custom_scope)])

\* 388-390
ScopeListQuit ==
    /\ pc = "loop" /\ step = "Scope" /\ ~focus_input
    /\ BreakLoop("quit")

\* 392-394
ScopeListTab ==
    /\ pc = "loop" /\ step = "Scope" /\ ~focus_input
    /\ Continue([state EXCEPT !.focus_input = TRUE])

\* 395-397
ScopeListDown ==
    /\ pc = "loop" /\ step = "Scope" /\ ~focus_input
    /\ Continue([state EXCEPT !.selected_scope =
                    next_selectable_scope(scopes_slice(config), selected_scope, 1)])

\* 398-400
ScopeListUp ==
    /\ pc = "loop" /\ step = "Scope" /\ ~focus_input
    /\ Continue([state EXCEPT !.selected_scope =
                    next_selectable_scope(scopes_slice(config), selected_scope, -1)])

ScopeListEnter_any_entry ==
    /\ pc = "loop" /\ step = "Scope" /\ ~focus_input
    /\ IF selected_scope >= Len(scopes_slice(config))
       THEN Panic
       ELSE Continue([state EXCEPT
                !.chosen_scope = IF selected_scope = 0
                                 THEN None
                                 ELSE Some(scopes_slice(config)[selected_scope + 1]),
                !.step = "Subject",
                !.focus_input = TRUE])

\* 401-411
ScopeListEnter ==
    /\ pc = "loop" /\ step = "Scope" /\ ~focus_input
    /\ IF selected_scope >= Len(scopes_slice(config))
       THEN Panic
       ELSE IF is_scope_selectable(scopes_slice(config), selected_scope)
       THEN Continue([state EXCEPT
                !.chosen_scope = IF selected_scope = 0
                                 THEN None
                                 ELSE Some(scopes_slice(config)[selected_scope + 1]),
                !.step = "Subject",
                !.focus_input = TRUE])
       ELSE Continue(state)

ScopeListBack_resets_cursor ==
    /\ pc = "loop" /\ step = "Scope" /\ ~focus_input
    /\ Continue([state EXCEPT !.step = "Type", !.selected_type = 0])

\* 412-418: 'b' or Left
ScopeListBack ==
    /\ pc = "loop" /\ step = "Scope" /\ ~focus_input
    /\ Continue([state EXCEPT
            !.step = "Type",
            !.selected_type =
                IF is_some(config.types) /\ is_some(chosen_type)
                   /\ contains(unwrap(config.types), unwrap(chosen_type))
                THEN position(unwrap(config.types), unwrap(chosen_type)) - 1
                ELSE 0])

\* 428-430
SubjectInputTab ==
    /\ pc = "loop" /\ step = "Subject" /\ focus_input
    /\ Continue([state EXCEPT !.focus_input = FALSE])

\* 426, 431-437
SubjectInputEnter ==
    /\ pc = "loop" /\ step = "Subject" /\ focus_input
    /\ LET msg == validate_subject(subject, config)
       IN  IF is_none(msg)
           THEN Continue([state EXCEPT !.step = "Body", !.focus_input = TRUE,
                                       !.in_body = FALSE])
           ELSE Continue(state)

\* 438-440
SubjectInputKey(c) ==
    /\ pc = "loop" /\ step = "Subject" /\ focus_input
    /\ CanType(subject)
    /\ Continue([state EXCEPT !.subject = push(subject, c)])

SubjectInputChar == \E c \in KeyChars : SubjectInputKey(c)

\* 441-443
SubjectInputBackspace ==
    /\ pc = "loop" /\ step = "Subject" /\ focus_input
    /\ Continue([state EXCEPT !.subject = pop(subject)])

\* 448-450
SubjectNavTab ==
    /\ pc = "loop" /\ step = "Subject" /\ ~focus_input
    /\ Continue([state EXCEPT !.focus_input = TRUE])

\* 451-458: 'b' or Left
SubjectNavBack ==
    /\ pc = "loop" /\ step = "Subject" /\ ~focus_input
    /\ LET scopes_vec == scopes_slice(config)
       IN  Continue([state EXCEPT
                !.step = "Scope",
                !.focus_input = is_some(chosen_scope)
                                /\ ~contains(scopes_vec, unwrap_or(chosen_scope, EmptyStr)),
                !.selected_scope = IF is_some(chosen_scope)
                                      /\ contains(scopes_vec, unwrap(chosen_scope))
                                   THEN position(scopes_vec, unwrap(chosen_scope)) - 1
                                   ELSE 0,
                !.custom_scope = unwrap_or(chosen_scope, EmptyStr)])

SubjectNavEnter_unchecked ==
    /\ pc = "loop" /\ step = "Subject" /\ ~focus_input
    /\ Continue([state EXCEPT !.step = "Body", !.focus_input = TRUE,
                                !.in_body = FALSE])

\* 459-466
SubjectNavEnter ==
    /\ pc = "loop" /\ step = "Subject" /\ ~focus_input
    /\ IF is_none(validate_subject(subject, config))
       THEN Continue([state EXCEPT !.step = "Body", !.focus_input = TRUE,
                                   !.in_body = FALSE])
       ELSE Continue(state)

\* 475-477
BodyInputTab ==
    /\ pc = "loop" /\ step = "Body" /\ focus_input
    /\ Continue([state EXCEPT !.focus_input = FALSE])

\* 478-486
BodyInputEnter ==
    /\ pc = "loop" /\ step = "Body" /\ focus_input
    /\ is_empty(body) \/ Len(body_lines) < MaxLines
    /\ IF is_empty(body)
       THEN Continue([state EXCEPT !.step = "Breaking", !.focus_input = TRUE])
       ELSE Continue([state EXCEPT !.body_lines = Append(body_lines, body),
                                   !.body = EmptyStr])

\* 487-489
BodyInputKey_b_goes_back(c) ==
    /\ pc = "loop" /\ step = "Body" /\ focus_input
    /\ CanType(body)
    /\ IF c = "b"
       THEN Continue([state EXCEPT !.step = "Subject", !.focus_input = TRUE])
       ELSE Continue([state EXCEPT !.body = push(body, c)])

\* 487-489: KeyCode::Char(c) with the edit focus
BodyInputKey(c) ==
    /\ pc = "loop" /\ step = "Body" /\ focus_input
    /\ CanType(body)
    /\ Continue([state EXCEPT !.body = push(body, c)])

BodyInputChar == \E c \in KeyChars : BodyInputKey(c)

\* 490-492
BodyInputBackspace ==
    /\ pc = "loop" /\ step = "Body" /\ focus_input
    /\ Continue([state EXCEPT !.body = pop(body)])

\* 497-499
BodyNavTab ==
    /\ pc = "loop" /\ step = "Body" /\ ~focus_input
    /\ Continue([state EXCEPT !.focus_input = TRUE])

BodyNavBack_clears_subject ==
    /\ pc = "loop" /\ step = "Body" /\ ~focus_input
    /\ Continue([state EXCEPT !.step = "Subject", !.focus_input = TRUE,
                              !.subject = EmptyStr])

\* 500-503: 'b' or Left
BodyNavBack ==
    /\ pc = "loop" /\ step = "Body" /\ ~focus_input
    /\ Continue([state EXCEPT !.step = "Subject", !.focus_input = TRUE])

\* 504-508
BodyNavEnter ==
    /\ pc = "loop" /\ step = "Body" /\ ~focus_input
    /\ Continue([state EXCEPT !.step = "Breaking", !.focus_input = TRUE])

\* 517-519
BreakingInputTab ==
    /\ pc = "loop" /\ step = "Breaking" /\ focus_input
    /\ Continue([state EXCEPT !.focus_input = FALSE])

BreakingInputEnter_requires_text ==
    /\ pc = "loop" /\ step = "Breaking" /\ focus_input
    /\ IF is_empty(breaking)
       THEN Continue(state)
       ELSE Continue([state EXCEPT !.step = "Preview", !.focus_issues = FALSE])

\* 520-523
BreakingInputEnter ==
    /\ pc = "loop" /\ step = "Breaking" /\ focus_input
    /\ Continue([state EXCEPT !.step = "Preview", !.focus_issues = FALSE])

\* 524-526
BreakingInputKey(c) ==
    /\ pc = "loop" /\ step = "Breaking" /\ focus_input
    /\ CanType(breaking)
    /\ Continue([state EXCEPT !.breaking = push(breaking, c)])

BreakingInputChar == \E c \in KeyChars : BreakingInputKey(c)

\* 527-529
BreakingInputBackspace ==
    /\ pc = "loop" /\ step = "Breaking" /\ focus_input
    /\ Continue([state EXCEPT !.breaking = pop(breaking)])

\* 534-536
BreakingNavTab ==
    /\ pc = "loop" /\ step = "Breaking" /\ ~focus_input
    /\ Continue([state EXCEPT !.focus_input = TRUE])

BreakingNavBack_to_subject ==
    /\ pc = "loop" /\ step = "Breaking" /\ ~focus_input
    /\ Continue([state EXCEPT !.step = "Subject", !.focus_input = TRUE])

\* 537-540: 'b' or Left
BreakingNavBack ==
    /\ pc = "loop" /\ step = "Breaking" /\ ~focus_input
    /\ Continue([state EXCEPT !.step = "Body", !.focus_input = TRUE])

\* 541-544
BreakingNavEnter ==
    /\ pc = "loop" /\ step = "Breaking" /\ ~focus_input
    /\ Continue([state EXCEPT !.step = "Preview", !.focus_issues = FALSE])

\* 553-555
PreviewIssuesTab ==
    /\ pc = "loop" /\ step = "Preview" /\ focus_issues
    /\ Continue([state EXCEPT !.focus_issues = FALSE])

\* 556-559
PreviewIssuesEnter ==
    /\ pc = "loop" /\ step = "Preview" /\ focus_issues
    /\ BreakLoop("confirm")

\* 560-562: every character, 'b' included (this arm precedes the one at 566)
PreviewIssuesChar ==
    /\ pc = "loop" /\ step = "Preview" /\ focus_issues
    /\ CanType(issues)
    /\ \E c \in KeyChars : Continue([state EXCEPT !.issues = push(issues, c)])

\* 563-565
PreviewIssuesBackspace ==
    /\ pc = "loop" /\ step = "Preview" /\ focus_issues
    /\ Continue([state EXCEPT !.issues = pop(issues)])

\* 566-570: Left
PreviewIssuesLeft ==
    /\ pc = "loop" /\ step = "Preview" /\ focus_issues
    /\ Continue([state EXCEPT !.focus_issues = FALSE, !.step = "Breaking",
                                !.focus_input = TRUE])

\* 575-577
PreviewNavTab ==
    /\ pc = "loop" /\ step = "Preview" /\ ~focus_issues
    /\ Continue([state EXCEPT !.focus_issues = TRUE])

\* 578-581: 'y' or Enter
PreviewNavConfirm ==
    /\ pc = "loop" /\ step = "Preview" /\ ~focus_issues
    /\ BreakLoop("confirm")

PreviewNavBack_clears_issues ==
    /\ pc = "loop" /\ step = "Preview" /\ ~focus_issues
    /\ Continue([state EXCEPT !.step = "Breaking", !.focus_input = TRUE,
                                !.issues = EmptyStr])

\* 582-585: 'b' or Left
PreviewNavBack ==
    /\ pc = "loop" /\ step = "Preview" /\ ~focus_issues
    /\ Continue([state EXCEPT !.step = "Breaking", !.focus_input = TRUE])

Next ==
    \/ Quit
    \/ TypeQuit \/ TypeDown \/ TypeUp \/ TypeEnter
    \/ ScopeInputTab \/ ScopeInputEnter \/ ScopeInputChar \/ ScopeInputBackspace
    \/ ScopeListQuit \/ ScopeListTab \/ ScopeListDown \/ ScopeListUp \/ ScopeListEnter
    \/ ScopeListBack
    \/ SubjectInputTab \/ SubjectInputEnter \/ SubjectInputChar \/ SubjectInputBackspace
    \/ SubjectNavTab \/ SubjectNavBack \/ SubjectNavEnter
    \/ BodyInputTab \/ BodyInputEnter \/ BodyInputChar \/ BodyInputBackspace
    \/ BodyNavTab \/ BodyNavBack \/ BodyNavEnter
    \/ BreakingInputTab \/ BreakingInputEnter \/ BreakingInputChar \/ BreakingInputBackspace
    \/ BreakingNavTab \/ BreakingNavBack \/ BreakingNavEnter
    \/ PreviewIssuesTab \/ PreviewIssuesEnter \/ PreviewIssuesChar \/ PreviewIssuesBackspace
    \/ PreviewIssuesLeft
    \/ PreviewNavTab \/ PreviewNavConfirm \/ PreviewNavBack

Spec == Init /\ [][Next]_vars

(***************************************************************************)
(* The message assembly on its own: run_tui is about to leave the loop     *)
(* from a Preview state whose fields are drawn from bounded sets, and      *)
(* from the states of three worked examples.                               *)
(***************************************************************************)
Texts(alphabet, n) == UNION {[1..k -> alphabet] : k \in 0..n}
SeqsUpTo(S, n) == UNION {[1..k -> S] : k \in 0..n}

Str_add_login ==
    <<"a", "d", "d", " ", "l", "o", "g", "i", "n">>
Str_handle_timeout ==
    <<"h", "a", "n", "d", "l", "e", " ", "t", "i", "m", "e", "o", "u", "t">>
Str_retries_added ==
    <<"r", "e", "t", "r", "i", "e", "s", " ", "a", "d", "d", "e", "d">>
Str_removes_old_flag ==
    <<"r", "e", "m", "o", "v", "e", "s", " ", "o", "l", "d", " ", "f", "l", "a", "g">>

DefaultRulesConfig ==
    [SmallConfig EXCEPT !.subject_max_length = Some(default_subject_max_length)]

\* a Preview state reached with the scope taken from the list at index i
PreviewState(ty, i, subj, lines, cur, brk, iss, fi) ==
    [step |-> "Preview", selected_type |-> ty,
     chosen_type |-> Some(types_slice(DefaultRulesConfig)[ty + 1]),
     selected_scope |-> i, custom_scope |-> EmptyStr, focus_input |-> TRUE,
     chosen_scope |-> IF i = 0 THEN None ELSE Some(scopes_slice(DefaultRulesConfig)[i + 1]),
     subject |-> subj, body |-> cur, body_lines |-> lines, in_body |-> FALSE,
     breaking |-> brk, issues |-> iss, focus_issues |-> fi]

\* the same with the scope typed as custom text
PreviewStateCustom(ty, txt, subj, lines, cur, brk, iss, fi) ==
    [PreviewState(ty, 0, subj, lines, cur, brk, iss, fi) EXCEPT
        !.custom_scope = txt, !.chosen_scope = Some(trim(txt))]

ScenarioA == PreviewState(0, 0, Str_add_login, <<>>, EmptyStr, EmptyStr, EmptyStr, FALSE)
ScenarioB ==
    PreviewState(1, 1, Str_handle_timeout, <<Str_retries_added>>, EmptyStr, EmptyStr,
                 EmptyStr, FALSE)
ScenarioC == [ScenarioB EXCEPT !.breaking = Str_removes_old_flag]

AsmAlphabet == {"b", " "}
AsmSubjects == {<<"b">>, <<"b", " ", "b">>}
AsmLines == Texts(AsmAlphabet, 1) \ {EmptyStr}

InitAssemble ==
    /\ config = DefaultRulesConfig
    /\ pc = "loop"
    /\ FilesNotRead
    /\ exit_key = "none"
    /\ result = None
    /\ raw_mode = TRUE
    /\ alt_screen = TRUE
    /\ validation_msg = None
    /\ \/ \E s \in {ScenarioA, ScenarioB, ScenarioC} : AppIs(s)
       \/ \E subj \in AsmSubjects, lines \in SeqsUpTo(AsmLines, MaxLines),
             cur \in Texts(AsmAlphabet, 1), brk \in Texts(AsmAlphabet, MaxLen),
             iss \in Texts(AsmAlphabet, MaxLen), fi \in BOOLEAN :
             \/ \E ty \in {0, 1}, i \in {0, 1} :
                   AppIs(PreviewState(ty, i, subj, lines, cur, brk, iss, fi))
             \/ AppIs(PreviewStateCustom(0, <<" ", "b">>, subj, lines, cur, brk, iss, fi))

NextAssemble == PreviewNavConfirm \/ PreviewIssuesEnter

SpecAssemble == InitAssemble /\ [][NextAssemble]_vars

(***************************************************************************)
(* The subject validation on its own: the Subject step holds a subject     *)
(* drawn from a bounded set, under every setting of the three rules.       *)
(***************************************************************************)
RuleConfigs ==
    {[SmallConfig EXCEPT !.subject_max_length = Some(m),
                         !.subject_start_lowercase = Some(lc),
                         !.subject_no_ending_period = Some(np)] :
        m \in 0..MaxLen, lc \in BOOLEAN, np \in BOOLEAN}

SubjectState(subj, fi) ==
    [InitialAppState EXCEPT !.step = "Subject", !.chosen_type = Some(Str_feat),
                            !.subject = subj, !.focus_input = fi]

\* a subject one character over the default limit: 73 times "x"
Str_over_default == [i \in 1..(default_subject_max_length + 1) |-> "x"]

InitValidate ==
    /\ pc = "loop"
    /\ FilesNotRead
    /\ exit_key = "none"
    /\ result = None
    /\ raw_mode = TRUE
    /\ alt_screen = TRUE
    /\ \/ /\ config \in RuleConfigs
          /\ \E subj \in Texts(KeyChars, MaxLen + 1), fi \in BOOLEAN :
                /\ AppIs(SubjectState(subj, fi))
                /\ validation_msg = drawn_validation_msg(SubjectState(subj, fi), config)
       \/ /\ config = DefaultRulesConfig
          /\ \E fi \in BOOLEAN :
                /\ AppIs(SubjectState(Str_over_default, fi))
                /\ validation_msg =
                       drawn_validation_msg(SubjectState(Str_over_default, fi), config)

NextValidate == SubjectInputEnter \/ SubjectNavEnter

SpecValidate == InitValidate /\ [][NextValidate]_vars

(***************************************************************************)
(* run_tui from its first line: the terminal set-up (50-55), the calls of  *)
(* the loop that can fail (83-325) and the restore after the loop          *)
(* (605-607).  Every `?` returns the error to the caller at once.          *)
(***************************************************************************)
ReturnErr(call) ==
    /\ pc' = "failed"
    /\ exit_key' = call
    /\ UNCHANGED <<files, config, result, validation_msg, app>>

\* 51: enable_raw_mode()?
EnableRawMode ==
    /\ pc = "start"
    /\ pc' = "entering"
    /\ raw_mode' = TRUE
    /\ UNCHANGED <<files, config, exit_key, result, alt_screen, validation_msg, app>>

EnableRawModeError ==
    /\ pc = "start"
    /\ ReturnErr("enable_raw_mode")
    /\ UNCHANGED <<raw_mode, alt_screen>>

\* 53: execute!(stdout, EnterAlternateScreen)?
EnterAlternateScreen ==
    /\ pc = "entering"
    /\ pc' = "creating"
    /\ alt_screen' = TRUE
    /\ UNCHANGED <<files, config, exit_key, result, raw_mode, validation_msg, app>>

EnterAlternateScreenError ==
    /\ pc = "entering"
    /\ ReturnErr("enter_alternate_screen")
    /\ UNCHANGED <<raw_mode, alt_screen>>

\* 55-83: Terminal::new(backend)?, the AppState, the first draw
NewTerminal ==
    /\ pc = "creating"
    /\ pc' = "loop"
    /\ UNCHANGED <<files, config, exit_key, result, raw_mode, alt_screen, validation_msg, app>>

NewTerminalError ==
    /\ pc = "creating"
    /\ ReturnErr("terminal_new")
    /\ UNCHANGED <<raw_mode, alt_screen>>

\* 83-321: terminal.draw(..)?
DrawError ==
    /\ pc = "loop"
    /\ ReturnErr("draw")
    /\ UNCHANGED <<raw_mode, alt_screen>>

\* 324: event::poll(..)?
PollError ==
    /\ pc = "loop"
    /\ ReturnErr("poll")
    /\ UNCHANGED <<raw_mode, alt_screen>>

\* 325: event::read()?
ReadError ==
    /\ pc = "loop"
    /\ ReturnErr("read")
    /\ UNCHANGED <<raw_mode, alt_screen>>

\* 328-332 then 605-607: a quit key breaks the loop and one of the three restoring
\* calls fails
RestoreError ==
    /\ pc = "loop"
    /\ \/ /\ ReturnErr("disable_raw_mode")
          /\ UNCHANGED <<raw_mode, alt_screen>>
       \/ /\ ReturnErr("leave_alternate_screen")
          /\ raw_mode' = FALSE
          /\ UNCHANGED alt_screen
       \/ /\ ReturnErr("show_cursor")
          /\ raw_mode' = FALSE
          /\ alt_screen' = FALSE

InitTerminal ==
    /\ config \in Configs
    /\ pc = "start"
    /\ FilesNotRead
    /\ exit_key = "none"
    /\ result = None
    /\ raw_mode = FALSE
    /\ alt_screen = FALSE
    /\ validation_msg = None
    /\ AppIs(InitialAppState)

NextTerminal ==
    \/ EnableRawMode \/ EnableRawModeError
    \/ EnterAlternateScreen \/ EnterAlternateScreenError
    \/ NewTerminal \/ NewTerminalError
    \/ DrawError \/ PollError \/ ReadError
    \/ RestoreError
    \/ Quit
    \/ TypeEnter
    \/ ScopeListEnter
    \/ SubjectInputChar \/ SubjectInputEnter
    \/ BodyInputEnter
    \/ BreakingInputEnter
    \/ PreviewNavConfirm

SpecTerminal == InitTerminal /\ [][NextTerminal]_vars

(***************************************************************************)
(* The Type step over every short non-empty type list, duplicates          *)
(* included.                                                               *)
(***************************************************************************)
MaxTypes == 3

Str_docs == <<"d", "o", "c", "s">>

TypeLabels == {Str_feat, Str_fix, Str_docs}

TypeConfig(list) == [SmallConfig EXCEPT !.types = Some(list)]

InitType ==
    /\ pc = "loop"
    /\ FilesNotRead
    /\ exit_key = "none"
    /\ result = None
    /\ raw_mode = TRUE
    /\ alt_screen = TRUE
    /\ validation_msg = None
    /\ \E list \in SeqsUpTo(TypeLabels, MaxTypes) \ {<<>>} :
          config = TypeConfig(list)
    /\ AppIs(InitialAppState)

NextType ==
    \/ TypeDown
    \/ TypeUp
    \/ TypeEnter
    \/ ScopeListBack

SpecType == InitType /\ [][NextType]_vars

(***************************************************************************)
(* The Scope step over every short scope list: ordinary labels and         *)
(* separators in any order, with or without "no scope" in front, and a     *)
(* custom text already typed.                                              *)
(***************************************************************************)
MaxScopes == 3

Str_b == <<"b">>
Str_A == <<"A">>
Str_sep1 == <<SepChar>>

ScopeLabels == {Str_b, Str_A, Str_sep1}
ScopeAlphabet == {"b", " ", SepChar}

ScopeConfig(list) == [SmallConfig EXCEPT !.scopes = Some(list)]

ScopeState(txt, fi) ==
    [InitialAppState EXCEPT !.step = "Scope", !.chosen_type = Some(Str_feat),
                            !.custom_scope = txt, !.focus_input = fi]

InitScope ==
    /\ pc = "loop"
    /\ FilesNotRead
    /\ exit_key = "none"
    /\ result = None
    /\ raw_mode = TRUE
    /\ alt_screen = TRUE
    /\ validation_msg = None
    /\ \/ \E list \in SeqsUpTo(ScopeLabels, MaxScopes) \ {<<>>} :
             config = ScopeConfig(list)
       \/ \E list \in SeqsUpTo(ScopeLabels, MaxScopes - 1) :
             config = ScopeConfig(<<Str_no_scope>> \o list)
    /\ \E txt \in Texts(ScopeAlphabet, MaxLen) \cup {Str_no_scope}, fi \in BOOLEAN :
          AppIs(ScopeState(txt, fi))

NextScope ==
    \/ ScopeInputTab
    \/ ScopeInputEnter
    \/ ScopeListTab
    \/ ScopeListDown
    \/ ScopeListUp
    \/ ScopeListEnter
    \/ SubjectInputTab
    \/ SubjectNavBack

SpecScope == InitScope /\ [][NextScope]_vars

(***************************************************************************)
(* src/config.rs: Config (plain fields), its defaults, merge and load.     *)
(* A Result<Config, _> is an Option: None is Err.                          *)
(***************************************************************************)
\* 20-25
default_types ==
    <<
       <<"f", "e", "a", "t">>,
       <<"f", "i", "x">>,
       <<"d", "o", "c", "s">>,
       <<"s", "t", "y", "l", "e">>,
       <<"r", "e", "f", "a", "c", "t", "o", "r">>,
       <<"p", "e", "r", "f">>,
       <<"t", "e", "s", "t">>,
       <<"b", "u", "i", "l", "d">>,
       <<"c", "i">>,
       <<"c", "h", "o", "r", "e">>,
       <<"r", "e", "v", "e", "r", "t">>
    >>

\* 27-37
default_scopes ==
    <<
       <<"n", "o", " ", "s", "c", "o", "p", "e">>,
       <<"c", "o", "r", "e">>,
       <<"a", "p", "i">>,
       <<"u", "i">>,
       <<"a", "u", "t", "h">>,
       <<"d", "b">>,
       <<"t", "e", "s", "t">>,
       <<"b", "u", "i", "l", "d">>,
       <<"d", "e", "p", "s">>,
       <<"c", "i">>,
       [i \in 1..12 |-> SepChar],
       <<"c", "o", "n", "f", "i", "g">>,
       <<"i", "n", "f", "r", "a">>,
       <<"r", "e", "l", "e", "a", "s", "e">>,
       <<"c", "h", "o", "r", "e">>,
       <<"p", "e", "r", "f">>,
       <<"s", "t", "y", "l", "e">>,
       <<"l", "i", "n", "t">>,
       <<"i", "1", "8", "n">>,
       <<"a", "n", "a", "l", "y", "t", "i", "c", "s">>,
       <<"s", "e", "c", "u", "r", "i", "t", "y">>,
       <<"l", "o", "g", "g", "i", "n", "g">>,
       <<"d", "e", "v", "o", "p", "s">>,
       <<"d", "e", "p", "l", "o", "y">>,
       <<"a", "s", "s", "e", "t", "s">>,
       <<"m", "o", "c", "k">>,
       <<"e", "x", "a", "m", "p", "l", "e">>
    >>

\* 70-80
Config_default ==
    [types |-> default_types,
     scopes |-> default_scopes,
     subject_max_length |-> default_subject_max_length,
     subject_start_lowercase |-> default_subject_start_lowercase,
     subject_no_ending_period |-> default_subject_no_ending_period]

\* 48-67
merge(self, other) ==
    [self EXCEPT !.types = other.types,
                 !.scopes = other.scopes,
                 !.subject_max_length = other.subject_max_length,
                 !.subject_start_lowercase = other.subject_start_lowercase,
                 !.subject_no_ending_period = other.subject_no_ending_period]

\* 8-18 with toml::from_str::<Config> (92, 109): types and scopes carry
\* #[serde(default = ..)], the three subject keys are required
from_str(content) ==
    IF is_none(content) THEN None
    ELSE LET table == unwrap(content)
         IN  IF \/ is_none(table.subject_max_length)
                \/ is_none(table.subject_start_lowercase)
                \/ is_none(table.subject_no_ending_period)
             THEN None
             ELSE Some([types |-> unwrap_or(table.types, default_types),
                        scopes |-> unwrap_or(table.scopes, default_scopes),
                        subject_max_length |-> unwrap(table.subject_max_length),
                        subject_start_lowercase |-> unwrap(table.subject_start_lowercase),
                        subject_no_ending_period |-> unwrap(table.subject_no_ending_period)])

\* fs::read_to_string: Some(text) or None for an error
read_to_string(file) == IF file.status = "readable" THEN Some(file.toml) ELSE None

\* one "read, parse, merge" block of load (91-101, 108-118)
merge_file(final_config, file) ==
    LET content == read_to_string(file)
    IN  IF is_some(content) /\ is_some(from_str(unwrap(content)))
        THEN merge(final_config, unwrap(from_str(unwrap(content))))
        ELSE final_config

\* 85-103
LoadGlobal ==
    /\ pc = "load_global"
    /\ config' = merge_file(config, global_file)
    /\ pc' = "load_local"
    /\ UNCHANGED <<files, exit_key, result, raw_mode, alt_screen, validation_msg, app>>

LoadLocal_fatal ==
    /\ pc = "load_local"
    /\ IF is_some(read_to_string(local_file))
          /\ is_none(from_str(unwrap(read_to_string(local_file))))
       THEN pc' = "failed" /\ exit_key' = "err" /\ UNCHANGED config
       ELSE /\ config' = merge_file(config, local_file)
            /\ pc' = "loaded"
            /\ exit_key' = "ok"
    /\ UNCHANGED <<files, result, raw_mode, alt_screen, validation_msg, app>>

\* 105-123: both returns are Ok(final_config)
LoadLocal ==
    /\ pc = "load_local"
    /\ config' = merge_file(config, local_file)
    /\ pc' = "loaded"
    /\ exit_key' = "ok"
    /\ UNCHANGED <<files, result, raw_mode, alt_screen, validation_msg, app>>

\* the tables a config file may hold: every key given or left out
Tables ==
    [types : {None, Some(<<Str_fix>>), Some(<<Str_docs>>)},
     scopes : {None, Some(<<Str_api>>)},
     subject_max_length : {None, Some(50), Some(100)},
     subject_start_lowercase : {None, Some(TRUE), Some(FALSE)},
     subject_no_ending_period : {None, Some(TRUE), Some(FALSE)}]

ConfigFiles ==
    {AbsentFile, UnreadableFile, TextFile(None)} \cup {TextFile(Some(tb)) : tb \in Tables}

InitLoad ==
    /\ pc = "load_global"
    /\ config = Config_default
    /\ global_file \in ConfigFiles
    /\ local_file \in ConfigFiles
    /\ exit_key = "none"
    /\ result = None
    /\ raw_mode = FALSE
    /\ alt_screen = FALSE
    /\ validation_msg = None
    /\ AppIs(InitialAppState)

NextLoad == LoadGlobal \/ LoadLocal

SpecLoad == InitLoad /\ [][NextLoad]_vars

(***************************************************************************)
(* Properties.  What the specification of the wizard expects of a message  *)
(* is written here from the state variables alone.                         *)
(***************************************************************************)
Returned == pc = "returned"
Message == unwrap(result)

HasBody == ~is_empty(body_lines) \/ ~is_empty(body)
NonBlank(txt) == trim(txt) # EmptyStr

\* "{type}: {subject}" or "{type}({scope}): {subject}"
ExpectedHeader ==
    IF chosen_scope = None \/ chosen_scope = Some(EmptyStr)
    THEN unwrap(chosen_type) \o <<":", " ">> \o subject
    ELSE unwrap(chosen_type) \o <<"(">> \o unwrap(chosen_scope) \o <<")">> \o <<":", " ">>
         \o subject

\* the committed lines joined by single newlines, then the current line
ExpectedBodyText ==
    IF body = EmptyStr THEN join(body_lines, <<NL>>)
    ELSE IF body_lines = <<>> THEN body
    ELSE join(body_lines, <<NL>>) \o <<NL>> \o body

ExpectedBreakingFooter == BreakingPrefix \o trim(breaking)

\* the text before the first newline
first_line(s) ==
    IF \E i \in 1..Len(s) : s[i] = NL
    THEN SubSeq(s, 1, (CHOOSE i \in 1..Len(s) : s[i] = NL /\ \A j \in 1..(i - 1) : s[j] # NL) - 1)
    ELSE s

has_substring(s, sub) ==
    \E i \in 1..(Len(s) - Len(sub) + 1) : SubSeq(s, i, i + Len(sub) - 1) = sub

drop_suffix(s, n) == SubSeq(s, 1, Len(s) - n)

\* p is the header alone, or the header followed (after some separator) by the body
IsHeaderAndBody(p) ==
    IF HasBody
    THEN /\ Len(p) >= Len(ExpectedHeader) + Len(ExpectedBodyText)
         /\ starts_with(p, ExpectedHeader)
         /\ ends_with(p, ExpectedBodyText)
    ELSE p = ExpectedHeader

Msg_ScenarioA ==
    <<"f", "e", "a", "t", ":", " ", "a", "d", "d", " ", "l", "o", "g", "i", "n", "\n">>
Msg_ScenarioB ==
    <<"f", "i", "x", "(", "a", "p", "i", ")", ":", " ", "h", "a", "n", "d", "l", "e", " ",
      "t", "i", "m", "e", "o", "u", "t", "\n", "\n", "r", "e", "t", "r", "i", "e", "s",
      " ", "a", "d", "d", "e", "d", "\n">>
Msg_ScenarioC_tail ==
    <<"r", "e", "t", "r", "i", "e", "s", " ", "a", "d", "d", "e", "d", "\n", "\n", "B",
      "R", "E", "A", "K", "I", "N", "G", " ", "C", "H", "A", "N", "G", "E", ":", " ", "r",
      "e", "m", "o", "v", "e", "s", " ", "o", "l", "d", " ", "f", "l", "a", "g", "\n">>
Str_fix_api_header ==
    <<"f", "i", "x", "(", "a", "p", "i", ")", ":", " ", "h", "a", "n", "d", "l", "e", " ",
      "t", "i", "m", "e", "o", "u", "t">>

\* C1: a run ended by Quit (Esc, Ctrl+C, 'q') returns no message; only a confirm in
\* Preview makes run_tui return Ok(message).
C1_QuitProducesNoMessage ==
    /\ (Returned /\ exit_key = "quit") => result = None
    /\ is_some(result) => (exit_key = "confirm" /\ step = "Preview")

\* C2: with a body, the message is the header, one blank line (exactly two newlines),
\* the committed lines joined by single newlines and then, if the current line is
\* non-empty, a newline and that line; the second worked example gives exactly
\* "fix(api): handle timeout\n\nretries added\n".
C2_BodySection ==
    /\ (Returned /\ HasBody) =>
          starts_with(Message, ExpectedHeader \o <<NL, NL>> \o ExpectedBodyText)
    /\ (Returned /\ AppIs(ScenarioB)) => Message = Msg_ScenarioB

\* C3: the message never holds three newlines in a row; every section present is set
\* off from the one before by exactly two newlines and an absent section adds none.
C3_BlankLineNormalization ==
    Returned =>
        /\ ~has_substring(Message, <<NL, NL, NL>>)
        /\ Message = ExpectedHeader
                     \o (IF HasBody THEN <<NL, NL>> \o ExpectedBodyText ELSE EmptyStr)
                     \o (IF NonBlank(breaking) THEN <<NL, NL>> \o ExpectedBreakingFooter
                         ELSE EmptyStr)
                     \o (IF NonBlank(issues) THEN <<NL, NL>> \o trim(issues) ELSE EmptyStr)
                     \o <<NL>>

\* C4: the first line of the message is "{type}: {subject}" without a scope and
\* "{type}({scope}): {subject}" with one, the subject unmodified.
C4_HeaderFormat ==
    Returned =>
        /\ first_line(Message) = ExpectedHeader
        /\ AppIs(ScenarioB) => first_line(Message) = Str_fix_api_header

C4_Witness ==
    /\ Returned /\ AppIs(ScenarioB)
    /\ first_line(Message) = Str_fix_api_header

\* C5: a non-blank breaking text appears as "BREAKING CHANGE: " and the trimmed text,
\* right after exactly two newlines that follow the header or the body; a blank
\* breaking text adds neither a footer nor a newline; the third worked example ends
\* with "retries added\n\nBREAKING CHANGE: removes old flag\n".
C5_BreakingFooter ==
    Returned =>
        LET after == (IF NonBlank(issues) THEN <<NL, NL>> \o trim(issues) ELSE EmptyStr)
                     \o <<NL>>
            footer == IF NonBlank(breaking) THEN <<NL, NL>> \o ExpectedBreakingFooter
                      ELSE EmptyStr
            before == drop_suffix(Message, Len(footer) + Len(after))
        IN  /\ ends_with(Message, footer \o after)
            /\ ~ends_with(before, <<NL>>)
            /\ IsHeaderAndBody(before)
            /\ AppIs(ScenarioC) => ends_with(Message, Msg_ScenarioC_tail)

C5_Witness ==
    /\ Returned /\ AppIs(ScenarioC)
    /\ ends_with(Message, Msg_ScenarioC_tail)

\* C6: a non-blank issues text is the last section of the message, trimmed and
\* verbatim, right after exactly two newlines that follow the header, the body or the
\* breaking footer; a blank issues text adds nothing.
C6_IssuesFooter ==
    Returned =>
        LET last == IF NonBlank(issues) THEN <<NL, NL>> \o trim(issues) ELSE EmptyStr
            before == drop_suffix(Message, Len(last) + 1)
        IN  /\ ends_with(Message, last \o <<NL>>)
            /\ ~ends_with(before, <<NL>>)
            /\ IF NonBlank(breaking) THEN ends_with(before, ExpectedBreakingFooter)
               ELSE IsHeaderAndBody(before)

C6_Witness ==
    /\ Returned /\ HasBody /\ NonBlank(breaking)
    /\ NonBlank(issues) /\ issues # trim(issues)
    /\ ends_with(Message, <<NL, NL>> \o trim(issues) \o <<NL>>)

\* C7: the returned string ends with exactly one newline, whichever of scope, body,
\* breaking footer and issues footer are present.
C7_TrailingNewline ==
    Returned => (ends_with(Message, <<NL>>) /\ ~ends_with(Message, <<NL, NL>>))

C7_Witness ==
    /\ Returned /\ is_some(chosen_scope) /\ HasBody /\ NonBlank(breaking) /\ NonBlank(issues)
    /\ ends_with(Message, <<NL>>)

\* C8: confirmed with no scope, no body line, blank breaking and blank issues, the
\* message is the header and one newline; the first worked example gives
\* "feat: add login\n".
C8_MinimalMessage ==
    /\ (Returned /\ chosen_scope = None /\ ~HasBody /\ ~NonBlank(breaking)
        /\ ~NonBlank(issues)) =>
          Message = unwrap(chosen_type) \o <<":", " ">> \o subject \o <<NL>>
    /\ (Returned /\ AppIs(ScenarioA)) => Message = Msg_ScenarioA

C8_Witness ==
    /\ Returned /\ AppIs(ScenarioA)
    /\ Message = Msg_ScenarioA

\* C9: the text drawn in the Preview pane is the message a confirm from that state
\* returns, apart from the final newline.
C9_PreviewIsMessage ==
    (Returned /\ exit_key = "confirm") => Message = full_preview(state) \o <<NL>>

\* the four checks of the subject rules, in their documented order
CheckFails(i) ==
    CASE i = 1 -> trim(subject) = EmptyStr
      [] i = 2 -> Len(subject) > unwrap(config.subject_max_length)
      [] i = 3 -> unwrap(config.subject_no_ending_period)
                  /\ subject # EmptyStr /\ subject[Len(subject)] = "."
      [] i = 4 -> unwrap(config.subject_start_lowercase)
                  /\ subject # EmptyStr /\ subject[1] \in UpperChars

FailureMessage(i) ==
    CASE i = 1 -> MsgEmpty
      [] i = 2 -> MsgTooLong(unwrap(config.subject_max_length), Len(subject))
      [] i = 3 -> MsgPeriod
      [] i = 4 -> MsgLowercase

FailingChecks == {i \in 1..4 : CheckFails(i)}

\* C10: validate_subject reports the first failing check in the order EmptySubject,
\* TooLong, TrailingPeriod, NotLowercaseStart and nothing when none fails; a disabled
\* rule never produces its failure.
C10_FirstFailingCheck ==
    step = "Subject" =>
        /\ FailingChecks = {} => validation_msg = None
        /\ FailingChecks # {} =>
              validation_msg =
                  Some(FailureMessage(CHOOSE i \in FailingChecks :
                                          \A j \in FailingChecks : i <= j))
        /\ ~unwrap(config.subject_no_ending_period) => validation_msg # Some(MsgPeriod)
        /\ ~unwrap(config.subject_start_lowercase) => validation_msg # Some(MsgLowercase)

C10_Witness ==
    /\ step = "Subject"
    /\ FailingChecks = {2, 3, 4}
    /\ validation_msg = Some(MsgTooLong(unwrap(config.subject_max_length), Len(subject)))

max_length == unwrap_or(config.subject_max_length, default_subject_max_length)

ConfirmSubject == SubjectInputEnter \/ SubjectNavEnter

\* C11 as written: every subject longer than the limit reports TooLong with that limit
\* and Confirm in either sub-mode leaves the step at Subject.
C11_TooLongAlwaysReported ==
    /\ [](step = "Subject" /\ Len(subject) > max_length =>
              validation_msg = Some(MsgTooLong(max_length, Len(subject))))
    /\ [][ConfirmSubject /\ Len(subject) > max_length => step' = "Subject"]_vars

\* C11: a subject longer than the limit reports TooLong with that limit unless it is
\* all whitespace, in which case it reports EmptySubject; either way Confirm in either
\* sub-mode leaves the step at Subject.
C11_TooLongBlocksConfirm ==
    /\ [](step = "Subject" /\ Len(subject) > max_length =>
              validation_msg = IF trim(subject) = EmptyStr
                               THEN Some(MsgEmpty)
                               ELSE Some(MsgTooLong(max_length, Len(subject))))
    /\ [][ConfirmSubject /\ Len(subject) > max_length => step' = "Subject"]_vars

C11_Witness ==
    /\ step = "Subject"
    /\ subject = Str_over_default
    /\ max_length = 72
    /\ validation_msg = Some(MsgTooLong(72, 73))

\* C12: a subject that is empty or only whitespace reports EmptySubject whatever its
\* length and whatever the limit, and Confirm leaves the step at Subject.
C12_BlankSubjectIsEmpty ==
    /\ [](step = "Subject" /\ trim(subject) = EmptyStr =>
              validation_msg = Some(MsgEmpty))
    /\ [][ConfirmSubject /\ trim(subject) = EmptyStr => step' = "Subject"]_vars

C12_Witness ==
    /\ step = "Subject"
    /\ subject = <<" ", " ">>
    /\ max_length = 0
    /\ validation_msg = Some(MsgEmpty)

\* C13: in every reachable state whose step is Body, Breaking or Preview the subject
\* passes validate_subject; a Confirm in Subject (either sub-mode) advances to Body
\* only when validation returns no failure and otherwise changes no field.
C13_ValidationGate ==
    /\ [](step \in {"Body", "Breaking", "Preview"} =>
              /\ validate_subject(subject, config) = None
              /\ FailingChecks = {})
    /\ [][ConfirmSubject =>
              IF validate_subject(subject, config) = None
              THEN step' = "Body"
              ELSE UNCHANGED app]_vars

C13_Witness ==
    /\ step = "Body"
    /\ subject = <<"b">>
    /\ validate_subject(subject, config) = None

\* C14: chosen_type is absent exactly while the step is Type: step = Type implies
\* chosen_type is absent and every later step implies it is present, also after Back
\* from Scope to Type.
C14_ChosenTypeIffPastType ==
    /\ step = "Type" => chosen_type = None
    /\ step # "Type" => chosen_type # None

IsSeparator(entry) == entry # EmptyStr /\ entry[1] = SepChar

scopes == scopes_slice(config)

entry_at(i) == scopes[i + 1]

\* the entries a move from index idx in direction dir may land on
SelectableBeyond(idx, dir) ==
    {j \in 0..(Len(scopes) - 1) :
        /\ ~IsSeparator(entry_at(j))
        /\ IF dir > 0 THEN j > idx ELSE j < idx}

NearestSelectable(idx, dir) ==
    IF SelectableBeyond(idx, dir) = {} THEN idx
    ELSE CHOOSE j \in SelectableBeyond(idx, dir) :
             \A k \in SelectableBeyond(idx, dir) : IF dir > 0 THEN j <= k ELSE j >= k

\* C15: the scope cursor never rests on a separator: it stays within [0, len-1], Up
\* and Down move it to the nearest non-separator entry in that direction, and it stays
\* unchanged when there is none.
C15_CursorSkipsSeparators ==
    /\ [][ScopeListDown \/ ScopeListUp =>
              /\ selected_scope' \in 0..(Len(scopes) - 1)
              /\ ~IsSeparator(entry_at(selected_scope'))]_vars
    /\ [][ScopeListDown => selected_scope' = NearestSelectable(selected_scope, 1)]_vars
    /\ [][ScopeListUp => selected_scope' = NearestSelectable(selected_scope, -1)]_vars

\* C16: Confirm in the custom scope input with an empty or whitespace-only text is a
\* no-op: the step stays Scope and chosen_scope and every other field are unchanged.
C16_BlankCustomIsNoOp ==
    [][ScopeInputEnter /\ ~NonBlank(custom_scope) => UNCHANGED app]_vars

\* C17: Confirm in the custom scope input with a text whose trim is non-empty sets
\* chosen_scope to exactly the trimmed text and advances to Subject in edit sub-mode.
C17_CustomScopeTrimmed ==
    [][ScopeInputEnter /\ NonBlank(custom_scope) =>
           /\ chosen_scope' = Some(trim(custom_scope))
           /\ step' = "Subject"
           /\ focus_input']_vars

C17_Witness ==
    /\ step = "Subject"
    /\ focus_input
    /\ custom_scope = <<" ", "b">>
    /\ chosen_scope = Some(<<"b">>)

\* C18: Confirm in the scope list on a non-separator entry sets chosen_scope to absent
\* at index 0 and to the entry at the cursor at any other index and advances to
\* Subject; Confirm with the cursor on a separator changes nothing.
C18_ListConfirm ==
    [][ScopeListEnter =>
           IF IsSeparator(entry_at(selected_scope))
           THEN UNCHANGED app
           ELSE /\ chosen_scope' = IF selected_scope = 0
                                   THEN None
                                   ELSE Some(entry_at(selected_scope))
                /\ step' = "Subject"]_vars

C18_Witness ==
    /\ step = "Subject"
    /\ selected_scope = 2
    /\ scopes = <<Str_sep1, Str_sep1, Str_A>>
    /\ chosen_scope = Some(Str_A)

\* C19: index 0 is the "no scope" sentinel only when the list has that entry first:
\* confirming the cursor at index 0 sets chosen_scope to absent when the first entry is
\* "no scope" and to the first entry when it is an ordinary label.
C19_SentinelOnlyWhenListed ==
    [][ScopeListEnter /\ selected_scope = 0 /\ ~IsSeparator(entry_at(0)) =>
           chosen_scope' = IF entry_at(0) = Str_no_scope
                           THEN None
                           ELSE Some(entry_at(0))]_vars

\* the Scope step as Back from Subject leaves it for the scope chosen before
JustCameBack ==
    /\ step = "Scope"
    /\ custom_scope = unwrap_or(chosen_scope, EmptyStr)
    /\ selected_scope = IF is_some(chosen_scope) /\ contains(scopes, unwrap(chosen_scope))
                        THEN position(scopes, unwrap(chosen_scope)) - 1
                        ELSE 0
    /\ focus_input = (is_some(chosen_scope) /\ ~contains(scopes, unwrap(chosen_scope)))

\* C20: after Back from Subject to Scope an immediate Confirm returns to Subject with
\* chosen_scope equal to its value before the Back, whatever scope was chosen.
C20_ScopeRoundTrip ==
    [][(ScopeListEnter \/ ScopeInputEnter) /\ JustCameBack =>
           /\ step' = "Subject"
           /\ chosen_scope' = chosen_scope]_vars

ConfirmBody == BodyInputEnter \/ BodyNavEnter

\* C21: in every Body state, edit or navigation sub-mode, a Confirm with an empty
\* current line leaves the committed lines unchanged and advances to Breaking, and a
\* Confirm with a non-empty current line appends it as the last committed line, empties
\* the current line and stays in Body.
C21_BodyConfirm ==
    [][ConfirmBody =>
           IF body = EmptyStr
           THEN body_lines' = body_lines /\ step' = "Breaking"
           ELSE /\ body_lines' = Append(body_lines, body)
                /\ body' = EmptyStr
                /\ step' = "Body"]_vars

\* C22: the committed body lines change only by appending one non-empty current line
\* on a Confirm in Body; no Back, forward move or re-entry into Body removes, reorders
\* or duplicates a committed line.
C22_CommittedLinesSurvive ==
    [][\/ body_lines' = body_lines
       \/ /\ BodyInputEnter
          /\ body # EmptyStr
          /\ body_lines' = Append(body_lines, body)]_vars

C22_Witness ==
    /\ step = "Scope"
    /\ body_lines = <<<<"b">>>>

types == types_slice(config)

\* C23: over a non-empty type list the Type cursor stays within [0, len-1]; Down at
\* len-1 and Up at 0 leave it unchanged, otherwise it moves by exactly one.
C23_TypeCursorSaturates ==
    /\ [](selected_type \in 0..(Len(types) - 1))
    /\ [][TypeDown => selected_type' = IF selected_type = Len(types) - 1
                                       THEN selected_type
                                       ELSE selected_type + 1]_vars
    /\ [][TypeUp => selected_type' = IF selected_type = 0
                                     THEN selected_type
                                     ELSE selected_type - 1]_vars

C23_Witness ==
    /\ step = "Type"
    /\ Len(types) = 3
    /\ selected_type = 2

\* C24: Confirm in Type sets chosen_type to the label at the cursor and advances to
\* Scope with the list focused, for every cursor position.
C24_TypeConfirm ==
    [][TypeEnter =>
           /\ chosen_type' = Some(types[selected_type + 1])
           /\ step' = "Scope"
           /\ ~focus_input']_vars

C24_Witness ==
    /\ step = "Scope"
    /\ ~focus_input
    /\ types = <<Str_feat, Str_fix, Str_docs>>
    /\ selected_type = 2
    /\ chosen_type = Some(Str_docs)

ConfirmBreaking == BreakingInputEnter \/ BreakingNavEnter

\* C25: from every Breaking state, in either sub-mode and for every breaking text
\* including the empty one, a Confirm is accepted and sets the step to Preview with the
\* issues field unfocused and the breaking text unchanged.
C25_BreakingConfirmAdvances ==
    /\ [](pc = "loop" /\ step = "Breaking" =>
              ENABLED (ConfirmBreaking /\ step' = "Preview"))
    /\ [][ConfirmBreaking =>
              /\ step' = "Preview"
              /\ ~focus_issues'
              /\ breaking' = breaking]_vars

C25_Witness ==
    /\ pc = "loop"
    /\ step = "Preview"
    /\ ~focus_issues
    /\ focus_input
    /\ breaking = EmptyStr

TextFields == <<custom_scope, subject, body, body_lines, breaking, issues>>

\* C26: in Preview with the issues field unfocused, Confirm (Enter or 'y') ends the
\* wizard with the message assembled from the current state, and Back sets the step to
\* Breaking without changing any text field.
C26_PreviewMainFocus ==
    /\ [][PreviewNavConfirm =>
              /\ pc' = "returned"
              /\ exit_key' = "confirm"
              /\ result' = Some(commit_message(state))
              /\ UNCHANGED app]_vars
    /\ [][PreviewNavBack => step' = "Breaking" /\ UNCHANGED TextFields]_vars

C26_Witness ==
    /\ pc = "returned"
    /\ exit_key = "confirm"
    /\ ~focus_issues
    /\ issues = <<"b">>
    /\ result = Some(commit_message(state))

\* the 'b' key pressed in the issues sub-focus
PreviewIssuesKeyB == PreviewIssuesChar /\ issues' = push(issues, "b")

\* C27: in the Preview issues sub-focus character keys are appended to the issues text,
\* Backspace removes its last character, Confirm ends the wizard, and every Back event,
\* the 'b' key as well as Left, sets the step to Breaking, clears the issues focus and
\* leaves the issues text unchanged.
C27_PreviewIssuesFocus ==
    /\ [][PreviewIssuesChar => \E c \in KeyChars : issues' = push(issues, c)]_vars
    /\ [][PreviewIssuesBackspace => issues' = pop(issues)]_vars
    /\ [][PreviewIssuesEnter => pc' = "returned" /\ exit_key' = "confirm"]_vars
    /\ [][PreviewIssuesKeyB \/ PreviewIssuesLeft =>
              /\ step' = "Breaking"
              /\ ~focus_issues'
              /\ issues' = issues]_vars

ConfirmEvent ==
    \/ TypeEnter
    \/ ScopeInputEnter \/ ScopeListEnter
    \/ ConfirmSubject
    \/ ConfirmBody
    \/ ConfirmBreaking
    \/ PreviewIssuesEnter \/ PreviewNavConfirm

\* a Confirm is possible that leaves the step and every field as they are
ConfirmIsNoOp == pc = "loop" /\ ENABLED (ConfirmEvent /\ UNCHANGED vars)

\* C28: the only case in which a Confirm leaves the step and every field unchanged is
\* the Subject step with a subject that fails validation; in every other step and
\* sub-mode a Confirm is accepted whatever the fields hold.
C28_OnlySubjectBlocks ==
    ConfirmIsNoOp => step = "Subject" /\ validate_subject(subject, config) # None

\* C29: on every path by which run_tui returns after enabling raw mode (confirm, Quit,
\* an I/O error from drawing, polling or reading an event) raw mode has been disabled
\* and the alternate screen left.
C29_TerminalRestored ==
    pc \in {"returned", "failed"} => ~raw_mode /\ ~alt_screen

\* the collected data alone: cursors, focus flags and the typed custom text set to
\* their initial values
StepState ==
    [InitialAppState EXCEPT !.step = "Preview",
                            !.chosen_type = chosen_type,
                            !.chosen_scope = chosen_scope,
                            !.subject = subject,
                            !.body_lines = body_lines,
                            !.body = body,
                            !.breaking = breaking,
                            !.issues = issues]

\* C30: the message returned by a Confirm in Preview is a function of chosen_type,
\* chosen_scope, subject, committed body lines, current body line, breaking and issues
\* alone: runs that agree on these return the same string whatever the event history,
\* cursor indices and focus flags.
C30_AssemblerDeterministic ==
    (Returned /\ exit_key = "confirm") => Message = commit_message(StepState)

C30_Witness ==
    /\ Returned
    /\ exit_key = "confirm"
    /\ chosen_scope = None
    /\ custom_scope = <<"b">>
    /\ selected_type = 1
    /\ focus_input
    /\ Message = commit_message(StepState)

\* the file is read and parsed into a Config
Contributes(file) == file.status = "readable" /\ is_some(from_str(file.toml))

MergedWith(cfg, file) ==
    IF Contributes(file) THEN merge(cfg, unwrap(from_str(file.toml))) ELSE cfg

(***************************************************************************)
(* The letters that are commands elsewhere ('b' Back, 'q', 'y' Confirm),   *)
(* and Left, pressed while a text field has the edit focus.                *)
(***************************************************************************)
CommandLetters == {"b", "q", "y"}

\* 384, 444, 493, 530: KeyCode::Left falls to the `_ => {}` arm of the edit-mode match
InputLeft ==
    /\ pc = "loop" /\ step \in {"Scope", "Subject", "Body", "Breaking"} /\ focus_input
    /\ Continue(state)

NextKeys ==
    \/ TypeEnter
    \/ ScopeListTab \/ ScopeListEnter \/ ScopeListBack
    \/ ScopeInputTab \/ ScopeInputEnter \/ \E c \in CommandLetters : ScopeInputKey(c)
    \/ SubjectInputTab \/ SubjectInputEnter \/ \E c \in CommandLetters : SubjectInputKey(c)
    \/ SubjectNavTab \/ SubjectNavBack
    \/ BodyInputTab \/ BodyInputEnter \/ \E c \in CommandLetters : BodyInputKey(c)
    \/ BodyNavTab \/ BodyNavBack
    \/ BreakingInputTab \/ BreakingInputEnter \/ \E c \in CommandLetters : BreakingInputKey(c)
    \/ BreakingNavTab \/ BreakingNavBack
    \/ InputLeft

SpecKeys == Init /\ [][NextKeys]_vars

(***************************************************************************)
(* The Type and Scope lists on their own, over configurations whose type   *)
(* list is missing, empty or short and whose scope list is missing, empty  *)
(* or short.                                                               *)
(***************************************************************************)
InitLists ==
    /\ pc = "loop"
    /\ FilesNotRead
    /\ exit_key = "none"
    /\ result = None
    /\ raw_mode = TRUE
    /\ alt_screen = TRUE
    /\ \E ts \in {None} \cup {Some(l) : l \in SeqsUpTo(TypeLabels, MaxTypes - 1)},
          ss \in {None} \cup {Some(l) : l \in SeqsUpTo(ScopeLabels, MaxScopes - 1)} :
          config = [SmallConfig EXCEPT !.types = ts, !.scopes = ss]
    /\ AppIs(InitialAppState)
    /\ validation_msg = drawn_validation_msg(InitialAppState, config)

NextLists ==
    \/ TypeDown \/ TypeUp \/ TypeEnter
    \/ ScopeListDown \/ ScopeListUp \/ ScopeListEnter \/ ScopeListTab \/ ScopeListBack
    \/ ScopeInputTab \/ ScopeInputEnter
    \/ SubjectInputTab \/ SubjectNavBack

SpecLists == InitLists /\ [][NextLists]_vars

\* C31: Config::load never fails, whatever the two files are (missing, unreadable,
\* unparsable or valid); a file that is not read or not parsed contributes nothing, so
\* the result is the configuration merged before it.
C31_LoadNeverFatal ==
    /\ pc # "failed"
    /\ pc = "load_local" => config = MergedWith(Config_default, global_file)
    /\ pc = "loaded" =>
          /\ exit_key = "ok"
          /\ config = MergedWith(MergedWith(Config_default, global_file), local_file)
          /\ ~Contributes(local_file) /\ ~Contributes(global_file) =>
                 config = Config_default

C31_Witness ==
    /\ pc = "loaded"
    /\ exit_key = "ok"
    /\ Contributes(global_file)
    /\ local_file = TextFile(None)
    /\ config = unwrap(from_str(global_file.toml))
    /\ config.subject_max_length = 50

ConfigFields ==
    {"types", "scopes", "subject_max_length", "subject_start_lowercase",
     "subject_no_ending_period"}

\* the file is a readable TOML table that gives the key
Specifies(file, key) ==
    /\ file.status = "readable"
    /\ is_some(file.toml)
    /\ is_some(unwrap(file.toml)[key])

ValueIn(file, key) == unwrap(unwrap(file.toml)[key])

\* C32: for each of the five fields the loaded value is the local file's when the local
\* file gives the key, otherwise the global file's when it gives the key, otherwise the
\* default; a key the local file leaves out never replaces the global file's value.
C32_PerFieldMerge ==
    pc = "loaded" =>
        \A key \in ConfigFields :
            config[key] = IF Specifies(local_file, key) THEN ValueIn(local_file, key)
                          ELSE IF Specifies(global_file, key) THEN ValueIn(global_file, key)
                          ELSE Config_default[key]

\* C33: each time the step becomes Body from another step the current body line is
\* emptied and the edit focus set before the next event; while the step stays Body the
\* entry logic does not empty the line again, so typed characters are kept until
\* Confirm.
C33_BodyResetOncePerEntry ==
    /\ [][step # "Body" /\ step' = "Body" =>
              body' = EmptyStr /\ focus_input' /\ in_body']_vars
    /\ [](step = "Body" => in_body)
    /\ [](pc = "loop" /\ step = "Body" /\ focus_input /\ CanType(body) =>
              ENABLED (BodyInputChar /\ body' = push(body, "b")))
    /\ [][step = "Body" /\ step' = "Body" /\ body' # body =>
              BodyInputChar \/ BodyInputBackspace \/ BodyInputEnter]_vars

C33_Witness ==
    /\ pc = "loop"
    /\ step = "Body"
    /\ in_body
    /\ ~focus_input
    /\ body = <<"b">>

\* C34: in every reachable state whose step is Breaking or Preview the current body
\* line is empty, so every body line of the returned message is a committed line.
C34_NoUncommittedLine ==
    step \in {"Breaking", "Preview"} => body = EmptyStr

StepOrder == <<"Type", "Scope", "Subject", "Body", "Breaking", "Preview">>

StepIndex(s) == CHOOSE i \in 1..Len(StepOrder) : StepOrder[i] = s

BackEvent ==
    \/ ScopeListBack
    \/ SubjectNavBack
    \/ BodyNavBack
    \/ BreakingNavBack
    \/ PreviewNavBack \/ PreviewIssuesLeft

\* C35: every transition leaves the step unchanged, moves it to the immediate successor
\* (only on a Confirm) or to the immediate predecessor (only on a Back); the wizard
\* completes successfully only from Preview.
C35_StepsInOrder ==
    /\ [][\/ step' = step
          \/ StepIndex(step') = StepIndex(step) + 1 /\ ConfirmEvent
          \/ StepIndex(step') = StepIndex(step) - 1 /\ BackEvent]_vars
    /\ [](exit_key = "confirm" => step = "Preview")

C35_Witness ==
    /\ pc = "returned"
    /\ exit_key = "confirm"
    /\ step = "Preview"
    /\ body_lines # <<>>

EditMode == pc = "loop" /\ step \in {"Scope", "Subject", "Body", "Breaking"} /\ focus_input

\* the text field that has the edit focus at a step
EditField(s) ==
    CASE s.step = "Scope" -> s.custom_scope
      [] s.step = "Subject" -> s.subject
      [] s.step = "Body" -> s.body
      [] s.step = "Breaking" -> s.breaking
      [] OTHER -> EmptyStr

LetterKey(c) ==
    ScopeInputKey(c) \/ SubjectInputKey(c) \/ BodyInputKey(c) \/ BreakingInputKey(c)

C37_BackKeepsData ==
    [][BackEvent =>
           UNCHANGED <<chosen_type, chosen_scope, subject, body_lines, breaking, issues>>]_vars

C37_Witness ==
    /\ pc = "loop"
    /\ step = "Type"
    /\ is_some(chosen_type)
    /\ is_some(chosen_scope)
    /\ subject = <<"b">>
    /\ body_lines = <<<<"A">>>>

\* C38: no event makes the program index a list out of bounds, also when the scope
\* list is empty and when the type list is empty or missing.
C38_NoOutOfBounds ==
    pc # "panicked"

\* the Type cursor position that Back from Scope restores
RestoredTypeCursor ==
    IF is_some(config.types) /\ is_some(chosen_type) /\ contains(types, unwrap(chosen_type))
    THEN position(types, unwrap(chosen_type)) - 1
    ELSE 0

\* C39: after Back from Scope to Type the cursor is on the first entry equal to
\* chosen_type, so an immediate Confirm returns to Scope with the same chosen_type,
\* also when the list holds duplicate labels.
C39_TypeRoundTrip ==
    /\ [][ScopeListBack => step' = "Type" /\ selected_type' = RestoredTypeCursor]_vars
    /\ [](pc = "loop" /\ step = "Type" /\ is_some(chosen_type)
          /\ selected_type = RestoredTypeCursor =>
              /\ types[selected_type + 1] = unwrap(chosen_type)
              /\ \A j \in 1..selected_type : types[j] # unwrap(chosen_type)
              /\ ENABLED (TypeEnter /\ step' = "Scope" /\ chosen_type' = chosen_type))
    /\ [][TypeEnter /\ is_some(chosen_type) /\ selected_type = RestoredTypeCursor =>
              step' = "Scope" /\ chosen_type' = chosen_type]_vars

C39_Witness ==
    /\ pc = "loop"
    /\ step = "Type"
    /\ types = <<Str_feat, Str_fix, Str_fix>>
    /\ chosen_type = Some(Str_fix)
    /\ selected_type = 1

====
